---- MODULE Spec2Model ----
(***************************************************************************)
(* A model of rbset: RBSet<T>, a set of scalars kept as a sorted Vec of    *)
(* closed ranges (start, end), its element iterator RBSetIter, and the     *)
(* differential driver of fuzz/fuzz_targets/fuzz_target.rs, which applies  *)
(* every insert and remove to a reference HashSet as well.                 *)
(*                                                                         *)
(* Vec indices are 0-based as in the source: entry idx of a Vec rs is      *)
(* rs[idx + 1] here.  A range is the tuple <<start, end>>; r[1] is the     *)
(* source's .0 and r[2] its .1.                                            *)
(***************************************************************************)
EXTENDS Integers, Sequences, FiniteSets

\* The largest value of the scalar type T (u8::MAX in the fuzz driver, scaled
\* down); T is 0..MaxT and arithmetic on T wraps modulo MaxT + 1.
MaxT == 10

\* How many times next() is called again after it has returned None.
MaxNones == 2

T == 0 .. MaxT

Modulus == MaxT + 1

\* T::one() added to / subtracted from a value of T (wrapping at the width).
Add1(x) == (x + 1) % Modulus

Sub1(x) == (x + Modulus - 1) % Modulus

\* Option<_>
None == <<>>

Some(x) == <<x>>

IsSome(o) == o # None

Unwrap(o) == o[1]

\* Vec::insert(pos, x): x becomes entry pos, later entries shift right.
VecInsert(rs, pos, x) ==
    SubSeq(rs, 1, pos) \o <<x>> \o SubSeq(rs, pos + 1, Len(rs))

\* Vec::remove(pos): entry pos is dropped, later entries shift left.
VecRemove(rs, pos) ==
    SubSeq(rs, 1, pos) \o SubSeq(rs, pos + 2, Len(rs))

\* rs with entry idx replaced by r (a write through the iter_mut reference).
VecSet(rs, idx, r) == [rs EXCEPT ![idx + 1] = r]

----------------------------------------------------------------------------
(* RBSet::insert *)

\* insert_scan with the membership test taken as start <= value < end.
RECURSIVE insert_scan_exclusive(_, _, _)
insert_scan_exclusive(rs, value, idx) ==
    IF idx >= Len(rs)
    THEN [ranges |-> rs, insert_pos |-> None, check_pos |-> None, returned |-> FALSE]
    ELSE LET start == rs[idx + 1][1]
             end == rs[idx + 1][2]
             ranges_len == Len(rs)
         IN  IF value >= start
             THEN IF value < end
                  THEN [ranges |-> rs, insert_pos |-> None, check_pos |-> None,
                        returned |-> TRUE]
                  ELSE IF value = Add1(end)
                  THEN [ranges |-> VecSet(rs, idx, <<start, Add1(end)>>),
                        insert_pos |-> None, check_pos |-> Some(idx),
                        returned |-> FALSE]
                  ELSE IF idx = ranges_len - 1
                  THEN [ranges |-> rs, insert_pos |-> Some(ranges_len),
                        check_pos |-> None, returned |-> FALSE]
                  ELSE insert_scan_exclusive(rs, value, idx + 1)
             ELSE IF value = Sub1(start)
                  THEN [ranges |-> VecSet(rs, idx, <<Sub1(start), end>>),
                        insert_pos |-> None,
                        check_pos |-> IF idx > 0 THEN Some(idx - 1) ELSE None,
                        returned |-> FALSE]
                  ELSE [ranges |-> rs, insert_pos |-> Some(idx),
                        check_pos |-> None, returned |-> FALSE]

\* insert_scan without the upper-bound extension: a value of end + 1 goes on
\* to the next entry like any value past the end.
RECURSIVE insert_scan_no_upper(_, _, _)
insert_scan_no_upper(rs, value, idx) ==
    IF idx >= Len(rs)
    THEN [ranges |-> rs, insert_pos |-> None, check_pos |-> None, returned |-> FALSE]
    ELSE LET start == rs[idx + 1][1]
             end == rs[idx + 1][2]
             ranges_len == Len(rs)
         IN  IF value >= start
             THEN IF value <= end
                  THEN [ranges |-> rs, insert_pos |-> None, check_pos |-> None,
                        returned |-> TRUE]
                  ELSE IF idx = ranges_len - 1
                  THEN [ranges |-> rs, insert_pos |-> Some(ranges_len),
                        check_pos |-> None, returned |-> FALSE]
                  ELSE insert_scan_no_upper(rs, value, idx + 1)
             ELSE IF value = Sub1(start)
                  THEN [ranges |-> VecSet(rs, idx, <<Sub1(start), end>>),
                        insert_pos |-> None,
                        check_pos |-> IF idx > 0 THEN Some(idx - 1) ELSE None,
                        returned |-> FALSE]
                  ELSE [ranges |-> rs, insert_pos |-> Some(idx),
                        check_pos |-> None, returned |-> FALSE]

\* The for loop of insert, from entry idx on.  Its result is the Vec as the
\* loop left it, insert_pos, check_pos, and whether the function returned
\* from inside the loop.
RECURSIVE insert_scan(_, _, _)
insert_scan(rs, value, idx) ==
    IF idx >= Len(rs)
    THEN [ranges |-> rs, insert_pos |-> None, check_pos |-> None, returned |-> FALSE]
    ELSE LET start == rs[idx + 1][1]
             end == rs[idx + 1][2]
             ranges_len == Len(rs)
         IN  IF value >= start
             THEN IF value <= end
                  THEN [ranges |-> rs, insert_pos |-> None, check_pos |-> None,
                        returned |-> TRUE]
                  ELSE IF value = Add1(end)
                  THEN [ranges |-> VecSet(rs, idx, <<start, Add1(end)>>),
                        insert_pos |-> None, check_pos |-> Some(idx),
                        returned |-> FALSE]
                  ELSE IF idx = ranges_len - 1
                  THEN [ranges |-> rs, insert_pos |-> Some(ranges_len),
                        check_pos |-> None, returned |-> FALSE]
                  ELSE insert_scan(rs, value, idx + 1)
             ELSE IF value = Sub1(start)
                  THEN [ranges |-> VecSet(rs, idx, <<Sub1(start), end>>),
                        insert_pos |-> None,
                        check_pos |-> IF idx > 0 THEN Some(idx - 1) ELSE None,
                        returned |-> FALSE]
                  ELSE [ranges |-> rs, insert_pos |-> Some(idx),
                        check_pos |-> None, returned |-> FALSE]

\* insert_new_range with the new range pushed at the end of the Vec.
insert_new_range_push(rs, insert_pos, value) ==
    IF IsSome(insert_pos)
    THEN VecInsert(rs, Len(rs), <<value, value>>)
    ELSE rs

\* insert_new_range with the insertion left out.
insert_new_range_skip(rs, insert_pos, value) == rs

\* "create new range, preserving sorted order"
insert_new_range(rs, insert_pos, value) ==
    IF IsSome(insert_pos)
    THEN VecInsert(rs, Unwrap(insert_pos), <<value, value>>)
    ELSE rs

\* insert_merge with the end taken over but the next entry left in the Vec.
insert_merge_keep_next(rs, check_pos) ==
    IF IsSome(check_pos)
    THEN LET p == Unwrap(check_pos)
             next_range == p + 1
         IN  IF Len(rs) <= 1 \/ p >= Len(rs) - 1
             THEN rs
             ELSE IF Add1(rs[p + 1][2]) = rs[next_range + 1][1]
                  THEN VecSet(rs, p, <<rs[p + 1][1], rs[next_range + 1][2]>>)
                  ELSE rs
    ELSE rs

\* insert_merge with the coalescing left out.
insert_merge_never(rs, check_pos) == rs

\* "check if two ranges can be combined back into one"
insert_merge(rs, check_pos) ==
    IF IsSome(check_pos)
    THEN LET p == Unwrap(check_pos)
             next_range == p + 1
         IN  IF Len(rs) <= 1 \/ p >= Len(rs) - 1
             THEN rs
             ELSE IF Add1(rs[p + 1][2]) = rs[next_range + 1][1]
                  THEN VecRemove(VecSet(rs, p, <<rs[p + 1][1], rs[next_range + 1][2]>>),
                                 next_range)
                  ELSE rs
    ELSE rs

\* The branch of insert that acted on rs: the push on an empty Vec, the
\* return on a present value, a new range, or the extension of an entry's
\* upper or lower bound.
insert_branch(rs, value) ==
    IF rs = <<>>
    THEN "empty"
    ELSE LET s == insert_scan(rs, value, 0)
         IN  IF s.returned THEN "present"
             ELSE IF IsSome(s.insert_pos) THEN "new"
             ELSE IF \E i \in 1 .. Len(rs) : s.ranges[i][1] # rs[i][1] THEN "lower"
             ELSE "upper"

\* The Vec after insert(value).
insert(rs, value) ==
    IF rs = <<>>
    THEN << <<value, value>> >>
    ELSE LET s == insert_scan(rs, value, 0)
         IN  IF s.returned
             THEN s.ranges
             ELSE insert_merge(insert_new_range(s.ranges, s.insert_pos, value),
                               s.check_pos)

----------------------------------------------------------------------------
(* RBSet::remove *)

\* remove_scan with the end of an entry taken as exclusive: the entry is
\* shrunk from above when value = end + 1.
RECURSIVE remove_scan_halfopen(_, _, _, _)
remove_scan_halfopen(rs, value, idx, add_range) ==
    IF idx >= Len(rs)
    THEN [ranges |-> rs, add_range |-> add_range, returned |-> FALSE]
    ELSE LET start == rs[idx + 1][1]
             end == rs[idx + 1][2]
         IN  IF value = start
             THEN IF value = end
                  THEN [ranges |-> VecRemove(rs, idx), add_range |-> add_range,
                        returned |-> TRUE]
                  ELSE [ranges |-> VecSet(rs, idx, <<Add1(start), end>>),
                        add_range |-> add_range, returned |-> TRUE]
             ELSE IF value = Add1(end)
             THEN [ranges |-> VecSet(rs, idx, <<start, Sub1(end)>>),
                   add_range |-> add_range, returned |-> TRUE]
             ELSE IF value > start /\ value < end
             THEN remove_scan_halfopen(VecSet(rs, idx, <<start, Sub1(value)>>),
                                       value, idx + 1, Some(<<idx + 1, end>>))
             ELSE remove_scan_halfopen(rs, value, idx + 1, add_range)

\* remove_scan with the lower-bound shrink applied to the wrong bound: the
\* end is decremented where the start should be incremented.
RECURSIVE remove_scan_wrong_bound(_, _, _, _)
remove_scan_wrong_bound(rs, value, idx, add_range) ==
    IF idx >= Len(rs)
    THEN [ranges |-> rs, add_range |-> add_range, returned |-> FALSE]
    ELSE LET start == rs[idx + 1][1]
             end == rs[idx + 1][2]
         IN  IF value = start
             THEN IF value = end
                  THEN [ranges |-> VecRemove(rs, idx), add_range |-> add_range,
                        returned |-> TRUE]
                  ELSE [ranges |-> VecSet(rs, idx, <<start, Sub1(end)>>),
                        add_range |-> add_range, returned |-> TRUE]
             ELSE IF value = end
             THEN [ranges |-> VecSet(rs, idx, <<start, Sub1(end)>>),
                   add_range |-> add_range, returned |-> TRUE]
             ELSE IF value > start /\ value < end
             THEN remove_scan_wrong_bound(VecSet(rs, idx, <<start, Sub1(value)>>),
                                          value, idx + 1, Some(<<idx + 1, end>>))
             ELSE remove_scan_wrong_bound(rs, value, idx + 1, add_range)

\* remove_scan with the entry (value, value) shrunk from below instead of
\* removed, which leaves the entry (value + 1, value) behind.
RECURSIVE remove_scan_keep_singleton(_, _, _, _)
remove_scan_keep_singleton(rs, value, idx, add_range) ==
    IF idx >= Len(rs)
    THEN [ranges |-> rs, add_range |-> add_range, returned |-> FALSE]
    ELSE LET start == rs[idx + 1][1]
             end == rs[idx + 1][2]
         IN  IF value = start
             THEN [ranges |-> VecSet(rs, idx, <<Add1(start), end>>),
                   add_range |-> add_range, returned |-> TRUE]
             ELSE IF value = end
             THEN [ranges |-> VecSet(rs, idx, <<start, Sub1(end)>>),
                   add_range |-> add_range, returned |-> TRUE]
             ELSE IF value > start /\ value < end
             THEN remove_scan_keep_singleton(VecSet(rs, idx, <<start, Sub1(value)>>),
                                             value, idx + 1, Some(<<idx + 1, end>>))
             ELSE remove_scan_keep_singleton(rs, value, idx + 1, add_range)

\* The for loop of remove, from entry idx on, with add_range as set so far.
\* The interior case records add_range and goes on to the next entry.
RECURSIVE remove_scan(_, _, _, _)
remove_scan(rs, value, idx, add_range) ==
    IF idx >= Len(rs)
    THEN [ranges |-> rs, add_range |-> add_range, returned |-> FALSE]
    ELSE LET start == rs[idx + 1][1]
             end == rs[idx + 1][2]
         IN  IF value = start
             THEN IF value = end
                  THEN [ranges |-> VecRemove(rs, idx), add_range |-> add_range,
                        returned |-> TRUE]
                  ELSE [ranges |-> VecSet(rs, idx, <<Add1(start), end>>),
                        add_range |-> add_range, returned |-> TRUE]
             ELSE IF value = end
             THEN [ranges |-> VecSet(rs, idx, <<start, Sub1(end)>>),
                   add_range |-> add_range, returned |-> TRUE]
             ELSE IF value > start /\ value < end
             THEN remove_scan(VecSet(rs, idx, <<start, Sub1(value)>>), value,
                              idx + 1, Some(<<idx + 1, end>>))
             ELSE remove_scan(rs, value, idx + 1, add_range)

\* remove_add_range with the upper half of the split dropped.
remove_add_range_lost(rs, value, add_range) == rs

\* remove_add_range with the new range inserted at the split entry's own
\* index, that is before the truncated entry.
remove_add_range_front(rs, value, add_range) ==
    IF IsSome(add_range)
    THEN VecInsert(rs, Unwrap(add_range)[1] - 1,
                   <<Add1(value), Unwrap(add_range)[2]>>)
    ELSE rs

\* The second half of a split: the range (value + 1, old_end) is inserted.
remove_add_range(rs, value, add_range) ==
    IF IsSome(add_range)
    THEN VecInsert(rs, Unwrap(add_range)[1], <<Add1(value), Unwrap(add_range)[2]>>)
    ELSE rs

\* The Vec after remove(value).
remove(rs, value) ==
    LET s == remove_scan(rs, value, 0, None)
    IN  IF s.returned
        THEN s.ranges
        ELSE remove_add_range(s.ranges, value, s.add_range)

----------------------------------------------------------------------------
(* RBSet::clear, is_empty, contains, and the derived length *)

\* clear that leaves the first entry in place (a truncate to one).
clear_keep_first(rs) == IF rs = <<>> THEN rs ELSE <<rs[1]>>

clear(rs) == <<>>

is_empty(rs) == Len(rs) = 0

\* contains with the end of an entry taken as exclusive.
contains_exclusive(rs, value) ==
    \E i \in 1 .. Len(rs) : value >= rs[i][1] /\ value < rs[i][2]

contains(rs, value) ==
    \E i \in 1 .. Len(rs) : value >= rs[i][1] /\ value <= rs[i][2]

\* set.len(): the sum over the entries of (end - start + 1), as a usize.
RECURSIVE len(_)
len(rs) ==
    IF rs = <<>> THEN 0
    ELSE (rs[1][2] - rs[1][1] + 1) + len(Tail(rs))

----------------------------------------------------------------------------
(* impl Display for RBSet.  Text is a sequence of one-character strings. *)

DigitChar(d) == <<"0", "1", "2", "3", "4", "5", "6", "7", "8", "9">>[d + 1]

\* "{}" of a value of T: its decimal digits.
RECURSIVE fmt_value(_)
fmt_value(n) ==
    IF n < 10 THEN <<DigitChar(n)>>
    ELSE fmt_value(n \div 10) \o <<DigitChar(n % 10)>>

\* fmt with a space written between the entries only.
RECURSIVE fmt_between(_)
fmt_between(rs) ==
    IF rs = <<>> THEN <<"\n">>
    ELSE fmt_value(rs[1][1]) \o <<".", ".", "=">> \o fmt_value(rs[1][2])
         \o (IF Len(rs) > 1 THEN <<" ">> ELSE <<>>) \o fmt_between(Tail(rs))

\* fmt: write!(f, "{}..={} ", range.0, range.1) for each range, then writeln!(f).
RECURSIVE fmt(_)
fmt(rs) ==
    IF rs = <<>> THEN <<"\n">>
    ELSE fmt_value(rs[1][1]) \o <<".", ".", "=">> \o fmt_value(rs[1][2])
         \o <<" ">> \o fmt(Tail(rs))

----------------------------------------------------------------------------
(* RBSetIter *)

\* RBSet::iter
iter(rs) == [pos |-> 0, last_yielded |-> None]

\* next with the step to the following entry yielding last + 1 instead of
\* that entry's start.
next_no_jump(self, rs) ==
    IF self.pos >= Len(rs)
    THEN [it |-> self, ret |-> None]
    ELSE IF IsSome(self.last_yielded)
         THEN LET x == Unwrap(self.last_yielded)
              IN  IF x = rs[self.pos + 1][2]
                  THEN IF self.pos + 1 < Len(rs)
                       THEN [it |-> [pos |-> self.pos + 1,
                                     last_yielded |-> Some(Add1(x))],
                             ret |-> Some(Add1(x))]
                       ELSE [it |-> [self EXCEPT !.pos = self.pos + 1], ret |-> None]
                  ELSE [it |-> [self EXCEPT !.last_yielded = Some(Add1(x))],
                        ret |-> Some(Add1(x))]
         ELSE [it |-> [self EXCEPT !.last_yielded = Some(rs[1][1])],
               ret |-> Some(rs[1][1])]

\* next with the iterator rewound when it runs out: None is returned, pos is
\* left on the last entry and last_yielded is taken.
next_rewind(self, rs) ==
    IF self.pos >= Len(rs)
    THEN [it |-> self, ret |-> None]
    ELSE IF IsSome(self.last_yielded)
         THEN LET x == Unwrap(self.last_yielded)
              IN  IF x = rs[self.pos + 1][2]
                  THEN IF self.pos + 1 < Len(rs)
                       THEN [it |-> [pos |-> self.pos + 1,
                                     last_yielded |-> Some(rs[self.pos + 2][1])],
                             ret |-> Some(rs[self.pos + 2][1])]
                       ELSE [it |-> [pos |-> 0, last_yielded |-> None],
                             ret |-> None]
                  ELSE [it |-> [self EXCEPT !.last_yielded = Some(Add1(x))],
                        ret |-> Some(Add1(x))]
         ELSE [it |-> [self EXCEPT !.last_yielded = Some(rs[1][1])],
               ret |-> Some(rs[1][1])]

\* RBSetIter::next on the iterator state self over the borrowed Vec rs: the
\* iterator state afterwards and the Option returned.
next(self, rs) ==
    IF self.pos >= Len(rs)
    THEN [it |-> self, ret |-> None]
    ELSE IF IsSome(self.last_yielded)
         THEN LET x == Unwrap(self.last_yielded)
              IN  IF x = rs[self.pos + 1][2]
                  THEN IF self.pos + 1 < Len(rs)
                       THEN [it |-> [pos |-> self.pos + 1,
                                     last_yielded |-> Some(rs[self.pos + 2][1])],
                             ret |-> Some(rs[self.pos + 2][1])]
                       ELSE [it |-> [self EXCEPT !.pos = self.pos + 1], ret |-> None]
                  ELSE [it |-> [self EXCEPT !.last_yielded = Some(Add1(x))],
                        ret |-> Some(Add1(x))]
         ELSE [it |-> [self EXCEPT !.last_yielded = Some(rs[1][1])],
               ret |-> Some(rs[1][1])]

----------------------------------------------------------------------------
(* What a call evaluates on the way: the entries its loop examines, the Vec  *)
(* indices it uses, and the operands of its + T::one() and - T::one().       *)
(* An index use is <<index, bound>>: the call panics unless                  *)
(* 0 <= index < bound.                                                       *)

NoTrace == [examined |-> {}, matched |-> {}, index_uses |-> {}, plus |-> {}, minus |-> {}]

\* The for loop of insert, from entry idx on: the operands of end + 1 (the
\* adjacency test and the extension) and of start - 1.
RECURSIVE insert_scan_trace(_, _, _, _)
insert_scan_trace(rs, value, idx, tr) ==
    IF idx >= Len(rs)
    THEN tr
    ELSE LET start == rs[idx + 1][1]
             end == rs[idx + 1][2]
             seen == [tr EXCEPT !.examined = @ \cup {idx}]
         IN  IF value >= start
             THEN IF value <= end
                  THEN seen
                  ELSE LET t == [seen EXCEPT !.plus = @ \cup {end}]
                       IN  IF value = Add1(end)
                           THEN t
                           ELSE IF idx = Len(rs) - 1
                           THEN t
                           ELSE insert_scan_trace(rs, value, idx + 1, t)
             ELSE LET t == [seen EXCEPT !.minus = @ \cup {start}]
                  IN  t

\* insert_merge_trace without the early return for a check_pos on the last
\* entry.
insert_merge_trace_unguarded(rs, check_pos, tr) ==
    IF IsSome(check_pos)
    THEN LET p == Unwrap(check_pos)
             next_range == p + 1
             t == [tr EXCEPT !.index_uses = @ \cup {<<p, Len(rs)>>,
                                                     <<next_range, Len(rs)>>}]
         IN  [t EXCEPT !.plus = @ \cup {rs[p + 1][2]}]
    ELSE tr

\* The merge check of insert on the Vec rs as the loop and the new range
\* left it: ranges[check_pos] and ranges[next_range] are read, end + 1 is
\* evaluated, and ranges.remove(next_range) is called on a match.
insert_merge_trace(rs, check_pos, tr) ==
    IF IsSome(check_pos)
    THEN LET p == Unwrap(check_pos)
             next_range == p + 1
         IN  IF Len(rs) <= 1 \/ p >= Len(rs) - 1
             THEN tr
             ELSE [tr EXCEPT !.index_uses = @ \cup {<<p, Len(rs)>>,
                                                    <<next_range, Len(rs)>>},
                             !.plus = @ \cup {rs[p + 1][2]}]
    ELSE tr

\* insert(value) on rs.
insert_trace(rs, value) ==
    IF rs = <<>>
    THEN NoTrace
    ELSE LET s == insert_scan(rs, value, 0)
             t == insert_scan_trace(rs, value, 0, NoTrace)
             u == IF IsSome(s.insert_pos)
                  THEN [t EXCEPT !.index_uses =
                                    @ \cup {<<Unwrap(s.insert_pos), Len(s.ranges) + 1>>}]
                  ELSE t
         IN  IF s.returned
             THEN t
             ELSE insert_merge_trace(insert_new_range(s.ranges, s.insert_pos, value),
                                     s.check_pos, u)

\* The for loop of remove, from entry idx on, and the insertion of the
\* second half of a split after it.
RECURSIVE remove_trace_scan(_, _, _, _, _)
remove_trace_scan(rs, value, idx, add_range, tr) ==
    IF idx >= Len(rs)
    THEN IF IsSome(add_range)
         THEN [tr EXCEPT !.plus = @ \cup {value},
                         !.index_uses = @ \cup {<<Unwrap(add_range)[1], Len(rs) + 1>>}]
         ELSE tr
    ELSE LET start == rs[idx + 1][1]
             end == rs[idx + 1][2]
             seen == [tr EXCEPT !.examined = @ \cup {idx}]
             hit == [seen EXCEPT !.matched = @ \cup {idx}]
         IN  IF value = start
             THEN IF value = end
                  THEN [hit EXCEPT !.index_uses = @ \cup {<<idx, Len(rs)>>}]
                  ELSE [hit EXCEPT !.plus = @ \cup {start}]
             ELSE IF value = end
             THEN [hit EXCEPT !.minus = @ \cup {end}]
             ELSE IF value > start /\ value < end
             THEN remove_trace_scan(VecSet(rs, idx, <<start, Sub1(value)>>), value,
                                    idx + 1, Some(<<idx + 1, end>>),
                                    [hit EXCEPT !.minus = @ \cup {value}])
             ELSE remove_trace_scan(rs, value, idx + 1, add_range, seen)

\* remove(value) on rs.
remove_trace(rs, value) == remove_trace_scan(rs, value, 0, None, NoTrace)

\* next_trace with last + 1 computed before last is compared with the end of
\* the entry.
next_trace_eager(self, rs) ==
    IF self.pos >= Len(rs)
    THEN NoTrace
    ELSE IF IsSome(self.last_yielded)
         THEN LET x == Unwrap(self.last_yielded)
                  t == [NoTrace EXCEPT !.index_uses = {<<self.pos, Len(rs)>>},
                                       !.plus = {x}]
              IN  IF x = rs[self.pos + 1][2]
                  THEN IF self.pos + 1 < Len(rs)
                       THEN [t EXCEPT !.index_uses = @ \cup {<<self.pos + 1, Len(rs)>>}]
                       ELSE t
                  ELSE t
         ELSE [NoTrace EXCEPT !.index_uses = {<<0, Len(rs)>>}]

\* next() on the iterator state self over rs.
next_trace(self, rs) ==
    IF self.pos >= Len(rs)
    THEN NoTrace
    ELSE IF IsSome(self.last_yielded)
         THEN LET x == Unwrap(self.last_yielded)
                  t == [NoTrace EXCEPT !.index_uses = {<<self.pos, Len(rs)>>}]
              IN  IF x = rs[self.pos + 1][2]
                  THEN IF self.pos + 1 < Len(rs)
                       THEN [t EXCEPT !.index_uses = @ \cup {<<self.pos + 1, Len(rs)>>}]
                       ELSE t
                  ELSE [t EXCEPT !.plus = {x}]
         ELSE [NoTrace EXCEPT !.index_uses = {<<0, Len(rs)>>}]

----------------------------------------------------------------------------
(* The differential driver: fuzz_target.rs *)

\* arr: the reference set's values pushed into a Vec and sorted.
RECURSIVE sorted_arr(_)
sorted_arr(S) ==
    IF S = {} THEN <<>>
    ELSE LET m == CHOOSE x \in S : \A y \in S : x <= y
         IN  <<m>> \o sorted_arr(S \ {m})

\* The for loop of consecutive_slices, from index i on.
RECURSIVE consecutive_loop(_, _, _, _)
consecutive_loop(data, i, slice_start, result) ==
    IF i >= Len(data)
    THEN [slice_start |-> slice_start, result |-> result]
    ELSE IF Add1(data[i]) # data[i + 1]
         THEN consecutive_loop(data, i + 1, i,
                               Append(result, <<data[slice_start + 1], data[i]>>))
         ELSE consecutive_loop(data, i + 1, slice_start, result)

consecutive_slices(data) ==
    LET l == consecutive_loop(data, 1, 0, <<>>)
    IN  IF data # <<>>
        THEN Append(l.result, <<data[l.slice_start + 1], data[Len(data)]>>)
        ELSE l.result

----------------------------------------------------------------------------
(* State *)

VARIABLES
    ranges,       \* RBSet.ranges
    hash_set,     \* the driver's reference HashSet
    last_op,      \* the last operation applied to the set, with its argument
    prev_ranges,  \* RBSet.ranges as it was before that operation
    it,           \* the live RBSetIter borrowing the set, or None
    yielded,      \* the values the live iterator has returned, in order
    nones,        \* how many times the live iterator has returned None
    out           \* the text of the set's display form, when last_op wrote it

vars == <<ranges, hash_set, last_op, prev_ranges, it, yielded, nones, out>>

\* RBSet::new() and HashSet::new()
Init ==
    /\ ranges = <<>>
    /\ hash_set = {}
    /\ last_op = [op |-> "new", value |-> 0]
    /\ prev_ranges = <<>>
    /\ it = None
    /\ yielded = <<>>
    /\ nones = 0
    /\ out = <<>>

\* Action::Insert(value).  A mutation needs the set not to be borrowed.
Insert(value) ==
    /\ it = None
    /\ ranges' = insert(ranges, value)
    /\ hash_set' = hash_set \cup {value}
    /\ last_op' = [op |-> "insert", value |-> value]
    /\ prev_ranges' = ranges
    /\ out' = <<>>
    /\ UNCHANGED <<it, yielded, nones>>

\* Action::Remove(value)
Remove(value) ==
    /\ it = None
    /\ ranges' = remove(ranges, value)
    /\ hash_set' = hash_set \ {value}
    /\ last_op' = [op |-> "remove", value |-> value]
    /\ prev_ranges' = ranges
    /\ out' = <<>>
    /\ UNCHANGED <<it, yielded, nones>>

\* set.clear(), the reference set cleared with it
Clear ==
    /\ it = None
    /\ ranges' = clear(ranges)
    /\ hash_set' = {}
    /\ last_op' = [op |-> "clear", value |-> 0]
    /\ prev_ranges' = ranges
    /\ out' = <<>>
    /\ UNCHANGED <<it, yielded, nones>>

\* set.iter(): a new iterator borrows the set.
Iter ==
    /\ it = None
    /\ it' = Some(iter(ranges))
    /\ yielded' = <<>>
    /\ nones' = 0
    /\ last_op' = [op |-> "iter", value |-> 0]
    /\ prev_ranges' = ranges
    /\ out' = <<>>
    /\ UNCHANGED <<ranges, hash_set>>

\* One call of next() on the live iterator.
IterNext ==
    /\ it # None
    /\ nones < MaxNones
    /\ Len(yielded) <= Modulus
    /\ LET n == next(Unwrap(it), ranges)
       IN  /\ it' = Some(n.it)
           /\ IF IsSome(n.ret)
              THEN yielded' = Append(yielded, Unwrap(n.ret)) /\ nones' = nones
              ELSE yielded' = yielded /\ nones' = nones + 1
    /\ UNCHANGED <<ranges, hash_set, last_op, prev_ranges, out>>

\* The iterator goes out of scope; the borrow ends.
IterDrop ==
    /\ it # None
    /\ it' = None
    /\ yielded' = <<>>
    /\ nones' = 0
    /\ UNCHANGED <<ranges, hash_set, last_op, prev_ranges, out>>

\* The set is formatted with "{}" (a shared borrow: a live iterator stays).
Display ==
    /\ out' = fmt(ranges)
    /\ last_op' = [op |-> "display", value |-> 0]
    /\ prev_ranges' = ranges
    /\ UNCHANGED <<ranges, hash_set, it, yielded, nones>>

Next ==
    \/ \E value \in T : Insert(value)
    \/ \E value \in T : Remove(value)
    \/ Clear
    \/ Iter
    \/ IterNext
    \/ IterDrop
    \/ Display

Spec == Init /\ [][Next]_vars

\* A live iterator that the caller keeps stepping: every pending next() call
\* is eventually made.
FairSpec == Spec /\ WF_vars(IterNext)

----------------------------------------------------------------------------
(* Canonical form and equivalence with the reference set *)

\* Every entry has start <= end, the entries are sorted by start, and
\* neighbouring entries are disjoint and not adjacent.
Canonical(rs) ==
    /\ \A i \in 1 .. Len(rs) : rs[i][1] <= rs[i][2]
    /\ \A i, j \in 1 .. Len(rs) : i < j => rs[i][1] < rs[j][1]
    /\ \A i \in 1 .. Len(rs) - 1 : rs[i][2] + 1 < rs[i + 1][1]

\* C1: after any sequence of insert, remove and clear calls from the empty
\* set, ranges() is in canonical form: start <= end in every entry, entries
\* sorted ascending by start, and end_i + 1 < start_(i+1) for neighbours.
C1_CanonicalForm == Canonical(ranges)

\* A split by remove and a coalescing by insert, each leaving several entries.
C1_Witness ==
    /\ Len(ranges) >= 3
    /\ \/ last_op.op = "remove" /\ Len(ranges) = Len(prev_ranges) + 1
       \/ last_op.op = "insert" /\ Len(ranges) = Len(prev_ranges) - 1

\* C2: ranges() is exactly the list of maximal runs of consecutive values of
\* the reference set, in ascending order, as the driver's CheckOrder computes
\* it with consecutive_slices over the sorted reference values.
C2_RangesAreRuns == ranges = consecutive_slices(sorted_arr(hash_set))

\* The unit test discontinuous_add: 0,1,2,3,7,8,10 inserted.
C2_Witness ==
    /\ hash_set = {0, 1, 2, 3, 7, 8, 10}
    /\ ranges = << <<0, 3>>, <<7, 8>>, <<10, 10>> >>
    /\ last_op.op = "insert"

\* C3: contains(w) on the RBSet equals membership of w in the reference set,
\* for every value w of the domain, at every point of the sequence.
C3_ContainsAgrees == \A w \in T : contains(ranges, w) = (w \in hash_set)

\* Both answers occur: a remove has split an entry, its value is no longer
\* contained, and the least and the greatest value of T are.
C3_Witness ==
    /\ last_op.op = "remove"
    /\ Len(ranges) = Len(prev_ranges) + 1
    /\ ~contains(ranges, last_op.value)
    /\ contains(ranges, 0)
    /\ contains(ranges, MaxT)

\* The members of the set as contains reports them.
members(rs) == {w \in T : contains(rs, w)}

----------------------------------------------------------------------------
(* Effects of insert and remove *)

\* C5: contains(v) is true immediately after insert(v), for every reachable
\* state and every v of the domain, the least and the greatest included.
C5_ContainsAfterInsert ==
    last_op.op = "insert" => contains(ranges, last_op.value)

\* The greatest value of T inserted while absent, next to an entry that ends
\* at MaxT - 1, into a set that already holds the least value.
C5_Witness ==
    /\ last_op = [op |-> "insert", value |-> MaxT]
    /\ ~contains(prev_ranges, MaxT)
    /\ contains(prev_ranges, MaxT - 1)
    /\ contains(prev_ranges, 0)
    /\ contains(ranges, MaxT)

\* C6: contains(v) is false immediately after remove(v), and it stays false
\* until an insert(v): a step in which v becomes a member is an insert(v).
C6_AbsentAfterRemove ==
    [][/\ last_op'.op = "remove" => ~contains(ranges', last_op'.value)
       /\ \A v \in T : (~contains(ranges, v) /\ contains(ranges', v))
                          => (last_op'.op = "insert" /\ Insert(v))]_vars

\* A member was removed from inside an entry and a different value was
\* inserted next to it afterwards: the removed one is still absent.
C6_Witness ==
    /\ last_op.op = "insert"
    /\ \E v \in T : /\ ~contains(ranges, v)
                    /\ ~contains(prev_ranges, v)
                    /\ last_op.value = v + 1
                    /\ contains(ranges, v - 1)

\* C7: insert(v) on a set that already contains v leaves ranges() exactly
\* unchanged, whether v is a start, an end or an interior value of its entry.
C7_InsertPresentNoop ==
    (last_op.op = "insert" /\ contains(prev_ranges, last_op.value))
        => ranges = prev_ranges

\* v was the end of an entry of several values with another entry after it.
C7_Witness ==
    /\ last_op.op = "insert"
    /\ \E i \in 1 .. Len(prev_ranges) - 1 :
          /\ prev_ranges[i][2] = last_op.value
          /\ prev_ranges[i][1] < last_op.value
    /\ ranges = prev_ranges

\* C8: remove(v) on a set that does not contain v leaves ranges() exactly
\* unchanged, also when v is adjacent to an entry and when the set is empty.
C8_RemoveAbsentNoop ==
    (last_op.op = "remove" /\ ~contains(prev_ranges, last_op.value))
        => ranges = prev_ranges

\* v was absent with end + 1 = v for one entry and v = start - 1 for the next.
C8_Witness ==
    /\ last_op.op = "remove"
    /\ ~contains(prev_ranges, last_op.value)
    /\ \E i \in 1 .. Len(prev_ranges) - 1 :
          /\ prev_ranges[i][2] + 1 = last_op.value
          /\ prev_ranges[i + 1][1] - 1 = last_op.value
    /\ ranges = prev_ranges

----------------------------------------------------------------------------
(* The element iterator *)

\* C9: an iterator stepped until it first returns None has yielded exactly
\* the members of the set, each once, in strictly ascending order; their
\* number is the sum over the entries of (end - start + 1), and every value
\* yielded on the way satisfies contains.
C9_IterYieldsMembers ==
    it # None =>
        /\ \A i \in 1 .. Len(yielded) : contains(ranges, yielded[i])
        /\ \A i \in 1 .. Len(yielded) - 1 : yielded[i] < yielded[i + 1]
        /\ nones >= 1 =>
              /\ yielded = sorted_arr(members(ranges))
              /\ Len(yielded) = len(ranges)

\* The unit test iter: 0,1,2,3,7,8,10 yielded from three entries, then None.
C9_Witness ==
    /\ it # None
    /\ nones = 1
    /\ ranges = << <<0, 3>>, <<7, 8>>, <<10, 10>> >>
    /\ yielded = <<0, 1, 2, 3, 7, 8, 10>>

\* C10: the iterator returns None after finitely many next() calls, on the
\* very first call for an empty set, and once next() has returned None every
\* later call returns None as well.
C10_IterTerminates ==
    /\ [](it # None => <>(nones >= 1 \/ it = None))
    /\ [][(IterNext /\ (ranges = <<>> \/ nones >= 1))
             => (nones' = nones + 1 /\ yielded' = yielded)]_vars

\* None was returned a second time by an iterator that had yielded values
\* from several entries.
C10_Witness ==
    /\ it # None
    /\ nones >= 2
    /\ Len(ranges) >= 2
    /\ Len(yielded) = len(ranges)

----------------------------------------------------------------------------
(* clear and is_empty *)

\* C11: clear() in any reachable state returns the set to the initial empty
\* state: ranges() is empty, is_empty() is true, contains(v) is false for
\* every v, and the operations that follow act as on a new set.
C11_ClearIsNew ==
    last_op.op = "clear" =>
        /\ ranges = <<>>
        /\ is_empty(ranges)
        /\ \A v \in T : ~contains(ranges, v)
        /\ \A v \in T : /\ insert(ranges, v) = insert(<<>>, v)
                        /\ remove(ranges, v) = remove(<<>>, v)
        /\ next(iter(ranges), ranges) = next(iter(<<>>), <<>>)

\* A set of several entries, the greatest value among them, was cleared.
C11_Witness ==
    /\ last_op.op = "clear"
    /\ Len(prev_ranges) >= 3
    /\ contains(prev_ranges, MaxT)
    /\ ranges = <<>>

\* C12: is_empty() is true if and only if no value is a member; removing the
\* members one at a time ends with ranges() = [] and is_empty() true, with no
\* entry left behind.
C12_EmptyIffNoMember ==
    /\ is_empty(ranges) <=> (\A v \in T : ~contains(ranges, v))
    /\ is_empty(ranges) <=> hash_set = {}
    /\ is_empty(ranges) <=> ranges = <<>>

\* The last member was removed: the entry (v, v) is gone and the set is empty.
C12_Witness ==
    /\ last_op.op = "remove"
    /\ Len(prev_ranges) = 1
    /\ prev_ranges[1] = <<last_op.value, last_op.value>>
    /\ ranges = <<>>
    /\ is_empty(ranges)

----------------------------------------------------------------------------
(* Display *)

\* The text of one entry: start..=end.
entry_text(r) == fmt_value(r[1]) \o <<".", ".", "=">> \o fmt_value(r[2])

\* The texts of the entries of rs with sep between neighbours.
RECURSIVE joined(_, _)
joined(rs, sep) ==
    IF rs = <<>> THEN <<>>
    ELSE IF Len(rs) = 1 THEN entry_text(rs[1])
    ELSE entry_text(rs[1]) \o sep \o joined(Tail(rs), sep)

\* How many characters of text are c.
count_char(text, c) == Cardinality({i \in 1 .. Len(text) : text[i] = c})

\* C13 as stated: the display form is the entries in order, each rendered as
\* start..=end, with single spaces between entries only, then a newline.
C13_SpacesBetweenOnly ==
    last_op.op = "display" => out = joined(ranges, <<" ">>) \o <<"\n">>

\* C13 as amended: the display form is the entries in order, each rendered
\* as start..=end and each followed by one space, the last one too, then a
\* newline; the empty set is the newline alone.
C13_SpaceAfterEach ==
    last_op.op = "display" =>
        /\ out = joined(ranges, <<" ">>)
                   \o (IF ranges = <<>> THEN <<>> ELSE <<" ">>) \o <<"\n">>
        /\ count_char(out, " ") = Len(ranges)
        /\ count_char(out, "\n") = 1
        /\ out[Len(out)] = "\n"

\* Three entries, one of them with a two-digit bound, were displayed.
C13_Witness ==
    /\ last_op.op = "display"
    /\ ranges = << <<0, 3>>, <<7, 8>>, <<10, 10>> >>
    /\ out = <<"0", ".", ".", "=", "3", " ", "7", ".", ".", "=", "8", " ",
               "1", "0", ".", ".", "=", "1", "0", " ", "\n">>

----------------------------------------------------------------------------
(* The branches of remove and insert *)

\* C14: remove(v) with v strictly inside an entry (start < v < end) replaces
\* that entry, in place, by (start, v - 1) and (v + 1, end) in that order and
\* leaves every other entry and the order of the entries unchanged.
C14_InteriorSplit ==
    last_op.op = "remove" =>
        \A i \in 1 .. Len(prev_ranges) :
            (prev_ranges[i][1] < last_op.value /\ last_op.value < prev_ranges[i][2])
                => ranges = SubSeq(prev_ranges, 1, i - 1)
                            \o << <<prev_ranges[i][1], last_op.value - 1>>,
                                  <<last_op.value + 1, prev_ranges[i][2]>> >>
                            \o SubSeq(prev_ranges, i + 1, Len(prev_ranges))

\* An entry with entries on both sides was split.
C14_Witness ==
    /\ last_op.op = "remove"
    /\ Len(prev_ranges) >= 3
    /\ prev_ranges[2][1] < last_op.value
    /\ last_op.value < prev_ranges[2][2]
    /\ Len(ranges) = Len(prev_ranges) + 1
    /\ ranges[2] = <<prev_ranges[2][1], last_op.value - 1>>
    /\ ranges[3] = <<last_op.value + 1, prev_ranges[2][2]>>

\* C15: in remove(v) at most one entry matches one of the four cases, and
\* the scan stops at the first match: no entry after the matching one is
\* examined against v.
C15_ScanStopsAtMatch ==
    last_op.op = "remove" =>
        LET t == remove_trace(prev_ranges, last_op.value)
        IN  /\ Cardinality(t.matched) <= 1
            /\ \A m \in t.matched : \A e \in t.examined : e <= m

----------------------------------------------------------------------------
(* Panics: Vec indices and arithmetic at the extremes of T *)

InBounds(uses) == \A u \in uses : 0 <= u[1] /\ u[1] < u[2]

\* C17: in every reachable state no call of insert, remove or next indexes
\* the entry list out of bounds: the insert position is at most the length,
\* the merge check reads p and p + 1 below the length, a removed index is
\* below the length, and the iterator reads ranges[pos] below the length.
C17_IndicesInBounds ==
    /\ last_op.op = "insert" =>
          InBounds(insert_trace(prev_ranges, last_op.value).index_uses)
    /\ last_op.op = "remove" =>
          InBounds(remove_trace(prev_ranges, last_op.value).index_uses)
    /\ it # None => InBounds(next_trace(Unwrap(it), ranges).index_uses)

\* An insert between two of several entries has closed the gap: its merge
\* check read entries p and p + 1 and removed entry p + 1.
C17_Witness ==
    /\ last_op.op = "insert"
    /\ Len(prev_ranges) >= 3
    /\ Len(ranges) = Len(prev_ranges) - 1
    /\ \E q \in 1 .. Len(prev_ranges) - 1 :
          {<<q - 1, Len(prev_ranges)>>, <<q, Len(prev_ranges)>>}
              \subseteq insert_trace(prev_ranges, last_op.value).index_uses

\* C18: over T = [0, MaxT] no evaluated + 1 has the operand MaxT and no
\* evaluated - 1 has the operand 0, in insert, in remove and in the
\* iterator's next, for every value of T, 0 and MaxT included.
C18_NoOverflow ==
    /\ last_op.op = "insert" =>
          /\ MaxT \notin insert_trace(prev_ranges, last_op.value).plus
          /\ 0 \notin insert_trace(prev_ranges, last_op.value).minus
    /\ last_op.op = "remove" =>
          /\ MaxT \notin remove_trace(prev_ranges, last_op.value).plus
          /\ 0 \notin remove_trace(prev_ranges, last_op.value).minus
    /\ it # None => MaxT \notin next_trace(Unwrap(it), ranges).plus

\* The iterator has yielded MaxT, the end of the last entry, from a set that
\* holds 0 as well, and its next call is still to come.
C18_Witness ==
    /\ it # None
    /\ nones = 0
    /\ yielded # <<>>
    /\ yielded[Len(yielded)] = MaxT
    /\ yielded[1] = 0
    /\ Len(ranges) >= 2

----------------------------------------------------------------------------
(* Coalescing *)

\* How many entries of rs start below value: the sorted position of value.
sorted_pos(rs, value) == Cardinality({i \in 1 .. Len(rs) : rs[i][1] < value})

\* C16: for insert(v) of an absent v, two entries are coalesced if and only
\* if both v - 1 and v + 1 were members; the number of entries then goes
\* down by one, it is unchanged when exactly one of them was a member, and
\* it goes up by one, by the entry (v, v) at its sorted position, when
\* neither was.
C16_CoalesceIffGapOfOne ==
    (last_op.op = "insert" /\ ~contains(prev_ranges, last_op.value)) =>
        LET v == last_op.value
            lo == contains(prev_ranges, v - 1)
            hi == contains(prev_ranges, v + 1)
            k == sorted_pos(prev_ranges, v)
        IN  /\ (Len(ranges) = Len(prev_ranges) - 1) <=> (lo /\ hi)
            /\ (lo /\ hi) =>
                  ranges = SubSeq(prev_ranges, 1, k - 1)
                           \o << <<prev_ranges[k][1], prev_ranges[k + 1][2]>> >>
                           \o SubSeq(prev_ranges, k + 2, Len(prev_ranges))
            /\ (lo # hi) => Len(ranges) = Len(prev_ranges)
            /\ (~lo /\ ~hi) =>
                  /\ Len(ranges) = Len(prev_ranges) + 1
                  /\ ranges = VecInsert(prev_ranges, k, <<v, v>>)

\* The gap of one between the second and the third of several entries was
\* closed.
C16_Witness ==
    /\ last_op.op = "insert"
    /\ Len(prev_ranges) >= 4
    /\ prev_ranges[2][2] + 1 = last_op.value
    /\ prev_ranges[3][1] - 1 = last_op.value
    /\ Len(ranges) = Len(prev_ranges) - 1
    /\ ranges[2] = <<prev_ranges[2][1], prev_ranges[3][2]>>

\* C19: insert and remove of the same value are inverses on the entry list:
\* after insert(v) of an absent v, remove(v) restores ranges() exactly, and
\* after remove(v) of a member v, insert(v) restores it exactly.
C19_InsertRemoveInverse ==
    /\ (last_op.op = "insert" /\ ~contains(prev_ranges, last_op.value))
          => remove(ranges, last_op.value) = prev_ranges
    /\ (last_op.op = "remove" /\ contains(prev_ranges, last_op.value))
          => insert(ranges, last_op.value) = prev_ranges

\* A remove has split an entry between two others, and the insert of the
\* same value merges the halves back.
C19_Witness ==
    /\ last_op.op = "remove"
    /\ Len(prev_ranges) >= 3
    /\ Len(ranges) = Len(prev_ranges) + 1
    /\ prev_ranges[2][1] < last_op.value
    /\ last_op.value < prev_ranges[2][2]
    /\ insert(ranges, last_op.value) = prev_ranges

\* C20: the merge check that follows a lower-bound extension never
\* coalesces: the previous entry's end + 1 is strictly less than the
\* extended start, and every coalescing comes from the upper-bound
\* extension branch.
C20_LowerExtensionNeverMerges ==
    last_op.op = "insert" =>
        LET v == last_op.value
            b == insert_branch(prev_ranges, v)
        IN  /\ b = "lower" =>
                  /\ Len(ranges) = Len(prev_ranges)
                  /\ \A i \in 2 .. Len(ranges) :
                        ranges[i][1] = v => ranges[i - 1][2] + 1 < v
            /\ Len(ranges) < Len(prev_ranges) => b = "upper"

\* A lower bound was extended towards a previous entry two values away, so
\* that the merge check ran on that entry and found a gap of one.
C20_Witness ==
    /\ last_op.op = "insert"
    /\ insert_branch(prev_ranges, last_op.value) = "lower"
    /\ IsSome(insert_scan(prev_ranges, last_op.value, 0).check_pos)
    /\ \E i \in 2 .. Len(ranges) :
          /\ ranges[i][1] = last_op.value
          /\ ranges[i - 1][2] = last_op.value - 2

====
